---- MODULE Spec2Model ----
(***************************************************************************)
(* Model of add_deps.py: a batch converter that runs every file of a       *)
(* source directory through a stanfordnlp pipeline and writes one .cupt    *)
(* file per input into a destination directory.                            *)
(*                                                                         *)
(* Strings are sequences of tokens (a token is an indivisible piece of     *)
(* text such as "Hel", "," or the tab character); the empty string is <<>>.*)
(* A Python None held by an optional textual attribute is modelled by the  *)
(* empty string as well: the program only ever tests such attributes for   *)
(* truthiness or compares them with "PUNCT", and None and "" agree on both.*)
(***************************************************************************)
EXTENDS Integers, Sequences, FiniteSets, TLC

VARIABLES
    pc,               \* position of the process in __main__ / tag_files
    run,              \* number of the current invocation of the program
    argv,             \* the command line: --processors and --batch values
    args,             \* argparse namespace: processors, batch
    processors_args,  \* the processors string handed to prepare_library
    pos_batch_size_arg, \* the batch size handed to prepare_library
    nlp,              \* the pipeline handle (NoPipeline before construction)
    source,           \* the source directory: the set of its entry names
    dest,             \* the destination directory: path -> text of the file
    files,            \* tag_files' list of paths, in listing order
    i,                \* position of the for loop in files
    file_content,     \* content read from the current file
    doc,              \* the Document returned by the pipeline
    cupt_content,     \* the lines assembled for the current file
    wpos,             \* number of lines of cupt_content already written
    log,              \* logging calls made by the current process
    reads,            \* paths opened for reading by the current process
    nlp_calls,        \* paths whose content was handed to the pipeline
    opened,           \* output paths opened for writing by the current process
    constructed,      \* number of pipeline constructions by the current process
    listed,           \* whether the current process has listed the source dir
    dest0,            \* the destination directory when the current process started
    prev              \* the previous process: the names it logged an error for,
                      \* and whether it ended at the pipeline's construction

vars == <<pc, run, argv, args, processors_args, pos_batch_size_arg, nlp, source, dest, files, i,
          file_content, doc, cupt_content, wpos, log, reads, nlp_calls, opened,
          constructed, listed, dest0, prev>>

-----------------------------------------------------------------------------
(* Bounds *)

MaxRuns == 2
MaxWords == 2
MaxSents == 2
MaxProc == 3
MaxSentWords == 4

-----------------------------------------------------------------------------
(* Strings *)

TAB == "\t"
NL == "\n"
COMMA == ","
DOT == "."
SEP == "/"
SPACE == " "

RECURSIVE Join(_, _)
\* sep.join(ss)
Join(sep, ss) ==
    IF ss = <<>> THEN <<>>
    ELSE IF Len(ss) = 1 THEN ss[1]
    ELSE ss[1] \o <<sep>> \o Join(sep, Tail(ss))

Digit(d) == CASE d = 0 -> "0" [] d = 1 -> "1" [] d = 2 -> "2" [] d = 3 -> "3"
              [] d = 4 -> "4" [] d = 5 -> "5" [] d = 6 -> "6" [] d = 7 -> "7"
              [] d = 8 -> "8" [] d = 9 -> "9"

RECURSIVE IntToStr(_)
\* str(n) for a non-negative integer
IntToStr(n) == IF n < 10 THEN <<Digit(n)>>
               ELSE IntToStr(n \div 10) \o <<Digit(n % 10)>>

-----------------------------------------------------------------------------
(* Documents *)

NoGovernor == -1        \* governor = None

PUNCT == <<"PUNCT">>

\* Words as the pipeline returns them, without their index
WordForms == {
    [text |-> <<"Hel", "lo">>, lemma |-> <<"hello">>, upos |-> <<"INTJ">>,
     xpos |-> <<"I">>, feats |-> <<"_">>, governor |-> 0,
     dependency_relation |-> <<"root">>],
    [text |-> <<",">>, lemma |-> <<",">>, upos |-> PUNCT,
     xpos |-> <<"Z">>, feats |-> <<"_">>, governor |-> 1,
     dependency_relation |-> <<"punct">>],
    [text |-> <<"world">>, lemma |-> <<"world">>, upos |-> <<"NOUN">>,
     xpos |-> <<"N">>, feats |-> <<"Number=Sing">>, governor |-> 12,
     dependency_relation |-> <<"vocative">>],
    [text |-> <<"!">>, lemma |-> <<>>, upos |-> PUNCT,
     xpos |-> <<"Z">>, feats |-> <<>>, governor |-> NoGovernor,
     dependency_relation |-> <<"punct">>],
    [text |-> <<"x">>, lemma |-> <<>>, upos |-> <<>>,
     xpos |-> <<>>, feats |-> <<>>, governor |-> NoGovernor,
     dependency_relation |-> <<>>] }

SeqsUpTo(S, n) == UNION {[1..k -> S] : k \in 0..n}

\* A sentence is its list of words; word k carries index k
WithIndex(ws) ==
    [k \in 1..Len(ws) |->
        [index |-> k, text |-> ws[k].text, lemma |-> ws[k].lemma,
         upos |-> ws[k].upos, xpos |-> ws[k].xpos, feats |-> ws[k].feats,
         governor |-> ws[k].governor,
         dependency_relation |-> ws[k].dependency_relation]]

SentencesUpTo(forms, n) == {WithIndex(ws) : ws \in SeqsUpTo(forms, n)}

\* the forms that differ in which attributes are present
AttributeForms == {w \in WordForms : w.upos # PUNCT}

\* documents of up to MaxSents sentences of up to MaxWords words
Docs == SeqsUpTo(SentencesUpTo(AttributeForms, MaxWords), MaxSents)

\* documents of one sentence of up to MaxSentWords words
OneSentenceDocs == {<<s>> : s \in SentencesUpTo(WordForms, MaxSentWords)}

-----------------------------------------------------------------------------
(* get_original_sentence *)

Separator_OwnTag(words, index) ==
    IF words[index].upos = PUNCT THEN <<>> ELSE <<SPACE>>

\* what follows word index (index < len(words)) in the original sentence
Separator(words, index) ==
    IF words[index + 1].upos = PUNCT THEN <<>> ELSE <<SPACE>>

RECURSIVE OriginalFrom(_, _, _)
OriginalFrom(words, index, original_sentence) ==
    IF index > Len(words) THEN original_sentence
    ELSE IF index < Len(words)
         THEN OriginalFrom(words, index + 1,
                  original_sentence \o words[index].text \o Separator(words, index))
         ELSE OriginalFrom(words, index + 1,
                  original_sentence \o words[index].text)

get_original_sentence(words) == OriginalFrom(words, 1, <<>>)

-----------------------------------------------------------------------------
(* Serialization of a document: tag_files, body of the try block *)

GLOBAL_COLUMNS ==
    <<"# global.columns = ID FORM LEMMA UPOS XPOS FEATS HEAD DEPREL DEPS MISC PARSEME:MWE">>

SourceSentId(path_to_file) == <<"# source_sent_id = . . ">> \o path_to_file

TextComment(original_sentence) == <<"# text = ">> \o original_sentence

\* x if x else "" for a textual attribute
OrEmpty(x) == IF x # <<>> THEN x ELSE <<>>

\* str(word.governor if word.governor else "")
GovernorField(g) == IF g # NoGovernor /\ g # 0 THEN IntToStr(g) ELSE <<>>

\* the eleven entries appended to word_props for one word, after str()
WordProps(word) ==
    << IntToStr(word.index),
       word.text,
       OrEmpty(word.lemma),
       OrEmpty(word.upos),
       OrEmpty(word.xpos),
       OrEmpty(word.feats),
       GovernorField(word.governor),
       OrEmpty(word.dependency_relation),
       <<"_">>, <<"_">>, <<"_">> >>

ResetWordProps_Keep(word_props) == word_props

\* word_props = [] at the end of the word loop's body
ResetWordProps(word_props) == <<>>

RECURSIVE WordLoop(_, _, _, _)
\* for word in sentence.words: ... ; returns the extended cupt_content
WordLoop(words, k, word_props, content) ==
    IF k > Len(words) THEN content
    ELSE LET props == word_props \o WordProps(words[k])
             line  == Join(TAB, props)
         IN  WordLoop(words, k + 1, ResetWordProps(props),
                      Append(Append(content, line), <<>>))

RECURSIVE SentenceLoop(_, _, _, _)
\* for sentence in doc.sentences: ...
SentenceLoop(path_to_file, sentences, s, content) ==
    IF s > Len(sentences) THEN content
    ELSE LET c1 == Append(content, SourceSentId(path_to_file))
             c2 == Append(c1, TextComment(get_original_sentence(sentences[s])))
             c3 == WordLoop(sentences[s], 1, <<>>, c2)
         IN  SentenceLoop(path_to_file, sentences, s + 1, c3)

CuptContent(path_to_file, d) ==
    SentenceLoop(path_to_file, d, 1, <<GLOBAL_COLUMNS>>)

-----------------------------------------------------------------------------
(* Paths *)

SourceDir == "source"
DestDir == "dest"

\* os.path.join(directory, name)
PathJoin(dir, name) == <<dir, SEP>> \o name

\* largest k with s[k] = tok, 0 if there is none
LastIndexOf(s, tok) ==
    LET ks == {k \in 1..Len(s) : s[k] = tok}
    IN  IF ks = {} THEN 0 ELSE CHOOSE k \in ks : \A j \in ks : j <= k

\* os.path.split(path)[1]
Basename(path) == SubSeq(path, LastIndexOf(path, SEP) + 1, Len(path))

\* os.path.splitext(name)[0]: the name up to its last dot, unless that dot
\* is preceded by dots only
SplitExtRoot(name) ==
    LET d == LastIndexOf(name, DOT)
    IN  IF d > 0 /\ \E k \in 1..(d - 1) : name[k] # DOT
        THEN SubSeq(name, 1, d - 1)
        ELSE name

Filename(path_to_file) == SplitExtRoot(Basename(path_to_file))

\* out_file = os.path.join(destination, filename + ".cupt")
OutFile(path_to_file) ==
    PathJoin(DestDir, Filename(path_to_file) \o <<DOT, "cupt">>)

PathExists_NoSuffix(path) == SubSeq(path, 1, Len(path) - 2) \in DOMAIN dest

\* os.path.exists(out_file)
PathExists(path) == path \in DOMAIN dest

-----------------------------------------------------------------------------
(* The file system and the pipeline *)

Names == { <<"a", DOT, "txt">>, <<"a", DOT, "md">>, <<"b">> }

OutPaths == {OutFile(PathJoin(SourceDir, n)) : n \in Names}

\* content of an output file left by an earlier, unrelated run
OldContent == <<"old", NL>>

\* open(path_to_file).read(): every entry has its own content
ContentOf(path_to_file) == <<"text of ">> \o Basename(path_to_file)

Word(t) == CHOOSE w \in WordForms : w.text = t

\* nlp(file_content): the pipeline is a function of the text
DocOf(content) ==
    CASE content = <<"text of ", "a", DOT, "txt">> ->
             << WithIndex(<< Word(<<"Hel", "lo">>), Word(<<"!">>) >>) >>
      [] content = <<"text of ", "a", DOT, "md">> ->
             << WithIndex(<< Word(<<"x">>) >>) >>
      [] OTHER -> << >>

NoPipeline == [loaded |-> FALSE]
Pipeline == [loaded |-> TRUE]

-----------------------------------------------------------------------------
(* Command line *)

PROCESSORS == <<"tokenize", COMMA, "mwt", COMMA, "pos", COMMA, "lemma", COMMA, "depparse">>

Stages == {"tokenize", "mwt", "pos", "lemma", "depparse"}

NoProcessors == <<"None">>     \* --processors omitted: args.processors is None
NoBatch == -1                  \* --batch omitted: args.batch is None
DefaultBatch == 1000

ProcessorLists == SeqsUpTo(Stages, MaxProc)

AllArgv == [processors : ProcessorLists \cup {NoProcessors}, batch : {NoBatch, 0, 1}]

MainArgv == [processors : {NoProcessors, <<"pos">>}, batch : {NoBatch}]

NoArgs == [processors |-> NoProcessors, batch |-> NoBatch]

\* truthiness of args.processors: neither None nor the empty list
Truthy(processors) == processors # NoProcessors /\ processors # <<>>

\* "tokenize" in args.processors
HasTokenize(processors) == \E k \in 1..Len(processors) : processors[k] = "tokenize"

WithTokenize_Unchanged(processors) == processors

\* lines 151-152: args.processors after the tokenize check
WithTokenize(processors) ==
    IF Truthy(processors) /\ ~HasTokenize(processors)
    THEN Append(processors, "tokenize")
    ELSE processors

\* line 153: ",".join(args.processors) if args.processors else PROCESSORS
ProcessorsArgs(processors) ==
    IF Truthy(processors)
    THEN Join(COMMA, [k \in 1..Len(processors) |-> <<processors[k]>>])
    ELSE PROCESSORS

\* line 154
PosBatchSizeArg(batch) == IF batch # NoBatch /\ batch # 0 THEN batch ELSE DefaultBatch

-----------------------------------------------------------------------------
(* Logging *)

InfoExists(filename) ==
    [level |-> "INFO", msg |-> "already exists", filename |-> filename, err |-> "-"]

InfoProcessed(filename) ==
    [level |-> "INFO", msg |-> "processed", filename |-> filename, err |-> "-"]

ErrorEntry(filename, e) ==
    [level |-> "ERROR", msg |-> "error", filename |-> filename, err |-> e]

Errors(l) == {k \in 1..Len(l) : l[k].level = "ERROR"}

FailedNames(l) == {l[k].filename : k \in Errors(l)}

-----------------------------------------------------------------------------
(* State *)

NoPrev == [failed |-> {}, crashed |-> FALSE]

path_to_file == files[i]
out_file == OutFile(path_to_file)

Orders(S) == {f \in [1..Cardinality(S) -> S] : \A j, k \in DOMAIN f : f[j] = f[k] => j = k}

FreshProcess ==
    /\ pc = "start"
    /\ args = NoArgs
    /\ processors_args = <<>>
    /\ pos_batch_size_arg = 0
    /\ nlp = NoPipeline
    /\ files = <<>>
    /\ i = 1
    /\ file_content = <<>>
    /\ doc = <<>>
    /\ cupt_content = <<>>
    /\ wpos = 0
    /\ log = <<>>
    /\ reads = {}
    /\ nlp_calls = {}
    /\ opened = {}
    /\ constructed = 0
    /\ listed = FALSE

Init ==
    /\ FreshProcess
    /\ run = 1
    /\ argv \in MainArgv
    /\ source \in SUBSET Names
    /\ \E existing \in SUBSET OutPaths : dest = [p \in existing |-> OldContent]
    /\ dest0 = dest
    /\ prev = NoPrev

-----------------------------------------------------------------------------
(* __main__ *)

\* args = init_argparser()
InitArgparser ==
    /\ pc = "start"
    /\ args' = argv
    /\ pc' = "main"
    /\ UNCHANGED <<run, argv, processors_args, pos_batch_size_arg, nlp, source, dest, files, i,
                   file_content, doc, cupt_content, wpos, log, reads, nlp_calls,
                   opened, constructed, listed, dest0, prev>>

\* lines 151-154
MainProcessors ==
    /\ pc = "main"
    /\ args' = [args EXCEPT !.processors = WithTokenize(args.processors)]
    /\ processors_args' = ProcessorsArgs(WithTokenize(args.processors))
    /\ pos_batch_size_arg' = PosBatchSizeArg(args.batch)
    /\ pc' = "prepare"
    /\ UNCHANGED <<run, argv, nlp, source, dest, files, i,
                   file_content, doc, cupt_content, wpos, log, reads, nlp_calls,
                   opened, constructed, listed, dest0, prev>>

\* nlp = prepare_library(...) returns the handle
PrepareLibrary ==
    /\ pc = "prepare"
    /\ nlp' = Pipeline
    /\ constructed' = constructed + 1
    /\ pc' = "listdir"
    /\ UNCHANGED <<run, argv, args, processors_args, pos_batch_size_arg, source, dest, files, i,
                   file_content, doc, cupt_content, wpos, log, reads, nlp_calls,
                   opened, dest0, prev, listed>>

PrepareLibraryFail_Caught ==
    /\ pc = "prepare"
    /\ constructed' = constructed + 1
    /\ pc' = "listdir"
    /\ UNCHANGED <<run, argv, args, processors_args, pos_batch_size_arg, nlp, source, dest, files, i,
                   file_content, doc, cupt_content, wpos, log, reads, nlp_calls,
                   opened, dest0, prev, listed>>

\* stanfordnlp.Pipeline(...) raises: nothing catches it, the process ends
PrepareLibraryFail ==
    /\ pc = "prepare"
    /\ constructed' = constructed + 1
    /\ pc' = "crashed"
    /\ UNCHANGED <<run, argv, args, processors_args, pos_batch_size_arg, nlp, source, dest, files, i,
                   file_content, doc, cupt_content, wpos, log, reads, nlp_calls,
                   opened, dest0, prev, listed>>

-----------------------------------------------------------------------------
(* tag_files *)

\* lines 93-95: the listing, in an order the file system chooses
ListDir ==
    /\ pc = "listdir"
    /\ \E order \in Orders(source) :
           files' = [k \in DOMAIN order |-> PathJoin(SourceDir, order[k])]
    /\ i' = 1
    /\ listed' = TRUE
    /\ pc' = "loop"
    /\ UNCHANGED <<run, argv, args, processors_args, pos_batch_size_arg, nlp, source, dest,
                   file_content, doc, cupt_content, wpos, log, reads, nlp_calls,
                   opened, constructed, dest0, prev>>

\* lines 100-102: the output exists, log and continue
Skip ==
    /\ pc = "loop"
    /\ i <= Len(files)
    /\ PathExists(out_file)
    /\ log' = Append(log, InfoExists(Filename(path_to_file)))
    /\ i' = i + 1
    /\ UNCHANGED <<pc, run, argv, args, processors_args, pos_batch_size_arg, nlp, source, dest, files,
                   file_content, doc, cupt_content, wpos, reads, nlp_calls,
                   opened, constructed, listed, dest0, prev>>

\* line 100, output absent: enter the try block
Enter ==
    /\ pc = "loop"
    /\ i <= Len(files)
    /\ ~PathExists(out_file)
    /\ pc' = "read"
    /\ UNCHANGED <<run, argv, args, processors_args, pos_batch_size_arg, nlp, source, dest, files, i,
                   file_content, doc, cupt_content, wpos, log, reads, nlp_calls,
                   opened, constructed, listed, dest0, prev>>

\* the for loop is exhausted: tag_files returns and the process ends
Finish ==
    /\ pc = "loop"
    /\ i > Len(files)
    /\ pc' = "done"
    /\ UNCHANGED <<run, argv, args, processors_args, pos_batch_size_arg, nlp, source, dest, files, i,
                   file_content, doc, cupt_content, wpos, log, reads, nlp_calls,
                   opened, constructed, listed, dest0, prev>>

Except_Abort(e) ==
    /\ log' = Append(log, ErrorEntry(Filename(path_to_file), e))
    /\ i' = Len(files) + 1
    /\ pc' = "loop"

\* lines 143-144: the handler logs the error; the loop goes on
Except(e) ==
    /\ log' = Append(log, ErrorEntry(Filename(path_to_file), e))
    /\ i' = i + 1
    /\ pc' = "loop"

\* line 106
ReadFile ==
    /\ pc = "read"
    /\ file_content' = ContentOf(path_to_file)
    /\ reads' = reads \cup {path_to_file}
    /\ pc' = "nlp"
    /\ UNCHANGED <<run, argv, args, processors_args, pos_batch_size_arg, nlp, source, dest, files, i,
                   doc, cupt_content, wpos, log, nlp_calls,
                   opened, constructed, listed, dest0, prev>>

\* line 106 raises (unreadable entry, a directory, a decoding error)
ReadFail ==
    /\ pc = "read"
    /\ reads' = reads \cup {path_to_file}
    /\ Except("read")
    /\ UNCHANGED <<run, argv, args, processors_args, pos_batch_size_arg, nlp, source, dest, files,
                   file_content, doc, cupt_content, wpos, nlp_calls,
                   opened, constructed, listed, dest0, prev>>

\* line 107
Nlp ==
    /\ pc = "nlp"
    /\ nlp.loaded
    /\ doc' = DocOf(file_content)
    /\ nlp_calls' = nlp_calls \cup {path_to_file}
    /\ pc' = "build"
    /\ UNCHANGED <<run, argv, args, processors_args, pos_batch_size_arg, nlp, source, dest, files, i,
                   file_content, cupt_content, wpos, log, reads,
                   opened, constructed, listed, dest0, prev>>

\* line 107 raises
NlpFail ==
    /\ pc = "nlp"
    /\ nlp_calls' = nlp_calls \cup {path_to_file}
    /\ Except("nlp")
    /\ UNCHANGED <<run, argv, args, processors_args, pos_batch_size_arg, nlp, source, dest, files,
                   file_content, doc, cupt_content, wpos, reads,
                   opened, constructed, listed, dest0, prev>>

\* lines 108-136
BuildCupt ==
    /\ pc = "build"
    /\ cupt_content' = CuptContent(path_to_file, doc)
    /\ pc' = "open"
    /\ UNCHANGED <<run, argv, args, processors_args, pos_batch_size_arg, nlp, source, dest, files, i,
                   file_content, doc, wpos, log, reads, nlp_calls,
                   opened, constructed, listed, dest0, prev>>

\* line 139: open(out_file, "w") creates or truncates the file
OpenOut ==
    /\ pc = "open"
    /\ dest' = [p \in DOMAIN dest \cup {out_file} |->
                   IF p = out_file THEN <<>> ELSE dest[p]]
    /\ opened' = opened \cup {out_file}
    /\ wpos' = 0
    /\ pc' = "write"
    /\ UNCHANGED <<run, argv, args, processors_args, pos_batch_size_arg, nlp, source, files, i,
                   file_content, doc, cupt_content, log, reads, nlp_calls,
                   constructed, listed, dest0, prev>>

\* line 139 raises: the file is not created
OpenFail ==
    /\ pc = "open"
    /\ Except("open")
    /\ UNCHANGED <<run, argv, args, processors_args, pos_batch_size_arg, nlp, source, dest, files,
                   file_content, doc, cupt_content, wpos, reads, nlp_calls,
                   opened, constructed, listed, dest0, prev>>

\* lines 140-141: cupt.write(line + "\n")
WriteLine ==
    /\ pc = "write"
    /\ wpos < Len(cupt_content)
    /\ dest' = [dest EXCEPT ![out_file] = @ \o cupt_content[wpos + 1] \o <<NL>>]
    /\ wpos' = wpos + 1
    /\ UNCHANGED <<pc, run, argv, args, processors_args, pos_batch_size_arg, nlp, source, files, i,
                   file_content, doc, cupt_content, log, reads, nlp_calls,
                   opened, constructed, listed, dest0, prev>>

\* line 141 raises: the with block closes the file, which stays as it is
WriteFail ==
    /\ pc = "write"
    /\ wpos < Len(cupt_content)
    /\ Except("write")
    /\ UNCHANGED <<run, argv, args, processors_args, pos_batch_size_arg, nlp, source, dest, files,
                   file_content, doc, cupt_content, wpos, reads, nlp_calls,
                   opened, constructed, listed, dest0, prev>>

\* line 142
LogProcessed ==
    /\ pc = "write"
    /\ wpos = Len(cupt_content)
    /\ log' = Append(log, InfoProcessed(Filename(path_to_file)))
    /\ i' = i + 1
    /\ pc' = "loop"
    /\ UNCHANGED <<run, argv, args, processors_args, pos_batch_size_arg, nlp, source, dest, files,
                   file_content, doc, cupt_content, wpos, reads, nlp_calls,
                   opened, constructed, listed, dest0, prev>>

\* the program is started again on the same directories with the same
\* command line
Rerun ==
    /\ pc \in {"done", "crashed"}
    /\ run < MaxRuns
    /\ run' = run + 1
    /\ dest0' = dest
    /\ prev' = [failed |-> FailedNames(log), crashed |-> (pc = "crashed")]
    /\ pc' = "start"
    /\ args' = NoArgs
    /\ processors_args' = <<>>
    /\ pos_batch_size_arg' = 0
    /\ nlp' = NoPipeline
    /\ files' = <<>>
    /\ i' = 1
    /\ file_content' = <<>>
    /\ doc' = <<>>
    /\ cupt_content' = <<>>
    /\ wpos' = 0
    /\ log' = <<>>
    /\ reads' = {}
    /\ nlp_calls' = {}
    /\ opened' = {}
    /\ constructed' = 0
    /\ listed' = FALSE
    /\ UNCHANGED <<argv, source, dest>>

Next ==
    \/ InitArgparser
    \/ MainProcessors
    \/ PrepareLibrary
    \/ PrepareLibraryFail
    \/ ListDir
    \/ Skip
    \/ Enter
    \/ Finish
    \/ ReadFile
    \/ ReadFail
    \/ Nlp
    \/ NlpFail
    \/ BuildCupt
    \/ OpenOut
    \/ OpenFail
    \/ WriteLine
    \/ WriteFail
    \/ LogProcessed
    \/ Rerun

Spec == Init /\ [][Next]_vars

-----------------------------------------------------------------------------
(* The command line alone: every --processors / --batch value, up to the    *)
(* construction of the pipeline                                            *)

InitArgs ==
    /\ FreshProcess
    /\ run = 1
    /\ argv \in AllArgv
    /\ source = {}
    /\ dest = [p \in {} |-> OldContent]
    /\ dest0 = dest
    /\ prev = NoPrev

NextArgs ==
    \/ InitArgparser
    \/ MainProcessors
    \/ PrepareLibrary
    \/ PrepareLibraryFail

SpecArgs == InitArgs /\ [][NextArgs]_vars

-----------------------------------------------------------------------------
(* The conversion of one file alone: every document the pipeline may       *)
(* return for it, from line 108 to line 142                                *)

SerName == <<"a", DOT, "txt">>

InitSer ==
    /\ pc = "build"
    /\ run = 1
    /\ argv = NoArgs
    /\ args = NoArgs
    /\ processors_args = PROCESSORS
    /\ pos_batch_size_arg = DefaultBatch
    /\ nlp = Pipeline
    /\ source = {SerName}
    /\ dest = [p \in {} |-> OldContent]
    /\ files = <<PathJoin(SourceDir, SerName)>>
    /\ i = 1
    /\ file_content = ContentOf(files[1])
    /\ doc \in Docs
    /\ cupt_content = <<>>
    /\ wpos = 0
    /\ log = <<>>
    /\ reads = {files[1]}
    /\ nlp_calls = {files[1]}
    /\ opened = {}
    /\ constructed = 1
    /\ listed = TRUE
    /\ dest0 = dest
    /\ prev = NoPrev

\* the same, for the documents of one longer sentence
InitSent ==
    /\ pc = "build"
    /\ run = 1
    /\ argv = NoArgs
    /\ args = NoArgs
    /\ processors_args = PROCESSORS
    /\ pos_batch_size_arg = DefaultBatch
    /\ nlp = Pipeline
    /\ source = {SerName}
    /\ dest = [p \in {} |-> OldContent]
    /\ files = <<PathJoin(SourceDir, SerName)>>
    /\ i = 1
    /\ file_content = ContentOf(files[1])
    /\ doc \in OneSentenceDocs
    /\ cupt_content = <<>>
    /\ wpos = 0
    /\ log = <<>>
    /\ reads = {files[1]}
    /\ nlp_calls = {files[1]}
    /\ opened = {}
    /\ constructed = 1
    /\ listed = TRUE
    /\ dest0 = dest
    /\ prev = NoPrev

NextSer ==
    \/ BuildCupt
    \/ OpenOut
    \/ WriteLine
    \/ LogProcessed

SpecSer == InitSer /\ [][NextSer]_vars

SpecSent == InitSent /\ [][NextSer]_vars

-----------------------------------------------------------------------------
(* Auxiliary notions used to state the properties *)

Range(f) == {f[k] : k \in DOMAIN f}

NoFiles == [p \in {} |-> OldContent]

\* s.split(sep): the pieces of s between the occurrences of sep
Split(s, sep) ==
    LET seps == {k \in 1..Len(s) : s[k] = sep}
        n == Cardinality(seps)
        pos(k) == IF k = 0 THEN 0
                  ELSE IF k = n + 1 THEN Len(s) + 1
                  ELSE CHOOSE p \in seps : Cardinality({q \in seps : q <= p}) = k
    IN  [k \in 1..(n + 1) |-> SubSeq(s, pos(k - 1) + 1, pos(k) - 1)]

\* the text of a file into which the given lines were written in full
RECURSIVE WrittenFile(_)
WrittenFile(lines) ==
    IF lines = <<>> THEN <<>>
    ELSE Head(lines) \o <<NL>> \o WrittenFile(Tail(lines))

\* the lines of a file's text: the pieces ended by a newline
FileLines(text) ==
    LET pieces == Split(text, NL)
    IN  SubSeq(pieces, 1, Len(pieces) - 1)

\* the complete output for a source path
FullOutput(path) == WrittenFile(CuptContent(path, DocOf(ContentOf(path))))

\* kind of a line of an output file: header, source comment, text comment,
\* blank line or word line
Kind(line) ==
    IF line = <<>> THEN "B"
    ELSE IF line[1] = GLOBAL_COLUMNS[1] THEN "H"
    ELSE IF line[1] = "# source_sent_id = . . " THEN "S"
    ELSE IF line[1] = "# text = " THEN "T"
    ELSE "W"

IsWordLine(line) == Kind(line) = "W"
IsTextLine(line) == Kind(line) = "T"

Kinds(lines) == [k \in DOMAIN lines |-> Kind(lines[k])]

\* the layout the format prescribes for a document: per sentence two
\* comments, one line per word, one blank line
RECURSIVE LayoutFrom(_, _)
LayoutFrom(d, s) ==
    IF s > Len(d) THEN <<>>
    ELSE <<"S", "T">> \o [k \in 1..Len(d[s]) |-> "W"] \o <<"B">> \o LayoutFrom(d, s + 1)

Layout(d) == <<"H">> \o LayoutFrom(d, 1)

RECURSIVE Concat(_)
\* the concatenation of a list of sequences
Concat(ss) == IF ss = <<>> THEN <<>> ELSE Head(ss) \o Concat(Tail(ss))

\* all words of a document, in order
AllWords(d) == Concat(d)

\* r is the text of words with one space after word j exactly when word j
\* is not the last one and word j+1 is not tagged PUNCT
IsReconstruction(words, r) ==
    LET n == Len(words)
        sp(j) == IF j < n /\ words[j + 1].upos # PUNCT THEN 1 ELSE 0
        start[j \in 1..(n + 1)] ==
            IF j = 1 THEN 1
            ELSE start[j - 1] + Len(words[j - 1].text) + sp(j - 1)
    IN  /\ Len(r) = start[n + 1] - 1
        /\ \A j \in 1..n :
              /\ SubSeq(r, start[j], start[j] + Len(words[j].text) - 1) = words[j].text
              /\ sp(j) = 1 => r[start[j] + Len(words[j].text)] = SPACE

\* the first file of the listing has been converted and its output closed
Written == pc = "loop" /\ i = 2 /\ log[1].msg = "processed"

FirstOut == dest[OutFile(files[1])]

-----------------------------------------------------------------------------
(* Properties *)

\* C1: a file whose output path exists when the loop reaches it is skipped:
\* the step taken from there reads nothing, calls no pipeline, opens no
\* output and leaves the destination as it is; and a path is only ever
\* opened for writing when no file exists at it.
C1_SkipLeavesOutput ==
    [][ /\ (pc = "loop" /\ i <= Len(files) /\ OutFile(files[i]) \in DOMAIN dest)
           => /\ dest' = dest
              /\ reads' = reads
              /\ nlp_calls' = nlp_calls
              /\ opened' = opened
              /\ pc' = "loop"
              /\ i' = i + 1
        /\ \A p \in DOMAIN dest :
              (p \in DOMAIN dest' /\ dest'[p] # dest[p])
                 => (pc = "write" /\ p = OutFile(files[i]) /\ p \notin DOMAIN dest0)
        /\ \A p \in opened' \ opened : p \notin DOMAIN dest ]_vars

C1_Witness ==
    /\ pc = "done"
    /\ \E k \in 1..Len(log) :
          /\ log[k].msg = "already exists"
          /\ OutFile(files[k]) \in DOMAIN dest0
          /\ dest[OutFile(files[k])] = OldContent
          /\ files[k] \notin reads
    /\ \E k \in 1..Len(log) : log[k].msg = "processed"

\* C2 as stated: after a second run the destination is what it was after
\* the first.
C2_Original ==
    (run >= 2 /\ pc \in {"done", "crashed"}) => dest = dest0

\* C2 amended: a later run changes no file the previous run left, and
\* creates a file only for an entry for which the previous run logged an
\* error, or after a previous run that ended at the pipeline's construction.
C2_RerunKeepsOutputs ==
    run >= 2 =>
        /\ \A p \in DOMAIN dest0 : p \in DOMAIN dest /\ dest[p] = dest0[p]
        /\ \A p \in DOMAIN dest \ DOMAIN dest0 :
              \/ prev.crashed
              \/ \E n \in source :
                    /\ OutFile(PathJoin(SourceDir, n)) = p
                    /\ Filename(PathJoin(SourceDir, n)) \in prev.failed
        /\ (~prev.crashed /\ prev.failed = {}) => dest = dest0

C2_Witness ==
    /\ run >= 2
    /\ pc = "done"
    /\ dest0 # NoFiles
    /\ DOMAIN dest # DOMAIN dest0
    /\ \E k \in 1..Len(log) : log[k].msg = "already exists"

C4_Original ==
    pc = "done" =>
        \A k \in Errors(log) :
            \/ OutFile(files[k]) \notin DOMAIN dest
            \/ \E j \in 1..Len(files) :
                  /\ j # k
                  /\ OutFile(files[j]) = OutFile(files[k])
                  /\ log[j].msg = "processed"

\* C5: the "# text" comment of every sentence holds the words' texts in
\* order, with one space after a word exactly when it is not the last word
\* and the next word is not tagged PUNCT.
C5_Reconstruction ==
    pc # "build" =>
        LET texts == SelectSeq(cupt_content, IsTextLine)
        IN  /\ Len(texts) = Len(doc)
            /\ \A s \in 1..Len(doc) : IsReconstruction(doc[s], Tail(texts[s]))

C5_Witness ==
    /\ pc # "build"
    /\ Len(doc[1]) = 4
    /\ doc[1][1].upos = <<"INTJ">>
    /\ doc[1][2].text = <<",">>
    /\ doc[1][3].upos = <<"NOUN">>
    /\ doc[1][4].text = <<"!">>
    /\ cupt_content[3] = <<"# text = ", "Hel", "lo", ",", SPACE, "world", "!">>

\* C6 as stated: a written file is the header followed, per sentence, by
\* the two comments, one line per word and one blank line (stated here for
\* the documents all of whose sentences have words).
C6_Original ==
    (Written /\ \A s \in 1..Len(doc) : Len(doc[s]) > 0)
        => Kinds(FileLines(FirstOut)) = Layout(doc)

\* C7: every word line of a written file has eleven tab-separated fields:
\* the word's index, text, lemma, upos, xpos, feats, governor and relation
\* (empty when absent), then three "_"; there is one such line per word.
C7_ElevenFields ==
    Written =>
        LET lines == SelectSeq(FileLines(FirstOut), IsWordLine)
            words == AllWords(doc)
        IN  /\ Len(lines) = Len(words)
            /\ \A k \in 1..Len(lines) :
                  LET fields == Split(lines[k], TAB)
                      w == words[k]
                  IN  /\ Len(fields) = 11
                      /\ fields[1] = IntToStr(w.index)
                      /\ fields[2] = w.text
                      /\ fields[3] = w.lemma
                      /\ fields[4] = w.upos
                      /\ fields[5] = w.xpos
                      /\ fields[6] = w.feats
                      /\ fields[7] = (IF w.governor \in {NoGovernor, 0}
                                      THEN <<>> ELSE IntToStr(w.governor))
                      /\ fields[8] = w.dependency_relation
                      /\ fields[9] = <<"_">>
                      /\ fields[10] = <<"_">>
                      /\ fields[11] = <<"_">>

C7_Witness ==
    /\ Written
    /\ Len(doc) = 2
    /\ Len(doc[1]) = 2
    /\ Len(doc[2]) = 1
    /\ doc[1][1].governor = 0
    /\ doc[1][2].lemma = <<>>
    /\ doc[1][2].governor = NoGovernor
    /\ doc[2][1].governor = 12

\* C8: the processors string handed to the pipeline's construction names
\* tokenize; it is the full chain when --processors is omitted, and the
\* given stages followed by tokenize when a non-empty list without tokenize
\* is given.
C8_TokenizeInjected ==
    pc \in {"prepare", "listdir", "crashed"} =>
        LET stages == Split(processors_args, COMMA)
            given  == [k \in 1..Len(argv.processors) |-> <<argv.processors[k]>>]
        IN  /\ <<"tokenize">> \in Range(stages)
            /\ argv.processors = NoProcessors =>
                  stages = << <<"tokenize">>, <<"mwt">>, <<"pos">>, <<"lemma">>, <<"depparse">> >>
            /\ (argv.processors # NoProcessors /\ argv.processors # <<>>
                  /\ "tokenize" \notin Range(argv.processors))
                  => stages = Append(given, <<"tokenize">>)

C8_Witness ==
    /\ pc = "listdir"
    /\ argv.processors = <<"pos", "lemma">>
    /\ processors_args = <<"pos", COMMA, "lemma", COMMA, "tokenize">>

\* C9: the pipeline is constructed at most once per process and before the
\* source directory is listed, a file read or an output opened; a process
\* whose construction raised has ended without listing, reading, writing
\* or logging anything.
C9_ConstructFirst ==
    /\ constructed <= 1
    /\ (listed \/ reads # {} \/ nlp_calls # {} \/ opened # {} \/ log # <<>>
          \/ pc \in {"listdir", "loop", "read", "nlp", "build", "open", "write", "done"})
          => (constructed = 1 /\ nlp.loaded)
    /\ pc = "crashed" =>
          /\ constructed = 1
          /\ ~nlp.loaded
          /\ ~listed
          /\ reads = {}
          /\ nlp_calls = {}
          /\ opened = {}
          /\ log = <<>>
          /\ dest = dest0

C9_Witness ==
    /\ pc = "crashed"
    /\ source = Names
    /\ dest = NoFiles

\* C10 as stated: after a run over an empty destination in which no file
\* raised, every entry of the source directory has its own complete output
\* file, and there are as many output files as entries.
C10_Original ==
    (pc = "done" /\ dest0 = NoFiles /\ Errors(log) = {}) =>
        /\ \A n \in source :
              LET path == PathJoin(SourceDir, n)
              IN  /\ OutFile(path) \in DOMAIN dest
                  /\ dest[OutFile(path)] = FullOutput(path)
        /\ Cardinality(DOMAIN dest) = Cardinality(source)

====
